---- MODULE Spec2Model ----
(***************************************************************************)
(* Model of substrate/network/src/protocol.rs: the Protocol object, its    *)
(* active peer table and handshaking table, the Context action buffer,     *)
(* request stamping in send_message, response correlation in               *)
(* handle_packet, the status handshake and the timeout maintenance of      *)
(* tick.                                                                   *)
(*                                                                         *)
(* Spec         every entry point is one atomic step on the tables (each   *)
(*              table mutation of the source happens inside one critical   *)
(*              section of the peer-table lock).                           *)
(* TimeoutSpec  the same steps with well-formed inputs, a clock that       *)
(*              advances by fractions of a second, and a timer that keeps  *)
(*              calling tick.                                              *)
(* GossipSpec   the entry points that move extrinsics, with a transaction  *)
(*              pool that changes.                                         *)
(* AnnounceSpec the entry points that move block announcements.            *)
(* ServerSpec   the peers ask for blocks of the local chain.                *)
(* LockSpec     the same entry points as sequences of lock acquisitions,   *)
(*              lock releases and SyncIo calls, run by concurrent threads. *)
(***************************************************************************)
EXTENDS Integers, Sequences, FiniteSets, TLC

\* ------------------------------------------------------------------------
\* Program constants
\* ------------------------------------------------------------------------
REQUEST_TIMEOUT_SEC == 40

CURRENT_VERSION == 1

MAX_BLOCK_DATA_RESPONSE == 128

\* ------------------------------------------------------------------------
\* Bounds of the model
\* ------------------------------------------------------------------------
\* Clock units per second: an Instant is finer than the whole seconds that
\* Duration::as_secs returns.
UnitsPerSec == 2

\* A peer is not sent more than MaxRequestId block requests in one lifetime.
MaxRequestId == 2

\* The local chain has the blocks 0 .. ChainLen - 1.
ChainLen == 130

PeerIds == {1, 2}

\* The threads that call into the Protocol concurrently.
Threads == {1, 2}

GenesisHash == "G"

OtherGenesisHash == "H"

\* The clock stops at the first instant at which a timestamp taken at time 0
\* has timed out.
MaxNow == (REQUEST_TIMEOUT_SEC + 1) * UnitsPerSec

\* The clock jumps: by the timeout exactly, by one unit less than one second
\* more than the timeout, by one second more than the timeout.
Deltas == {REQUEST_TIMEOUT_SEC * UnitsPerSec, MaxNow - 1, MaxNow}

\* ------------------------------------------------------------------------
\* Option<T>: None is <<>>, Some(x) is <<x>>
\* ------------------------------------------------------------------------
None == <<>>

Some(x) == <<x>>

IsSome(o) == Len(o) = 1

Unwrap(o) == o[1]

\* ------------------------------------------------------------------------
\* Messages and the codec
\* ------------------------------------------------------------------------
BlockRequestMsg(id) == [kind |-> "BlockRequest", id |-> id]

BlockResponseMsg(id) == [kind |-> "BlockResponse", id |-> id]

StatusMsg(version, genesis) ==
    [kind |-> "Status", version |-> version, genesis_hash |-> genesis]

BftMsg == [kind |-> "BftMessage"]

\* Message::Extrinsics: the extrinsics of the Vec, as a set.
ExtrinsicsMsg(extrinsics) == [kind |-> "Extrinsics", extrinsics |-> extrinsics]

BlockAnnounceMsg(header) == [kind |-> "BlockAnnounce", header |-> header]

\* The extrinsics and the headers that go around.
Extrinsics == {"x", "y"}

Headers == {"h1", "h2"}

\* The hash of an extrinsic, as the TransactionPool reports it.
ExtrinsicHash(t) == <<"blake2", t>>

\* header.blake2_256().into()
HeaderHashOf(header) == <<"blake2", header>>

\* serde_json::to_vec: the bytes of a message.
Encode(m) == <<"json", m>>

\* Bytes that are no message.
Garbage == <<"garbage">>

DecodeOk(data) == data[1] = "json"

\* serde_json::from_slice on bytes that decode.
Decode(data) == data[2]


\* ------------------------------------------------------------------------
\* State
\* ------------------------------------------------------------------------
VARIABLES
    peers,              \* ContextData.peers: HashMap<PeerId, Peer>
    handshaking_peers,  \* Protocol.handshaking_peers: HashMap<PeerId, Instant>
    now,                \* the monotonic clock read by time::Instant::now()
    io,                 \* the SyncIo calls made by the last entry point, in order
    calls,              \* the ChainSync / Consensus calls made by the last entry point
    lastOp,             \* the last entry point invoked and its arguments
    pool,               \* the extrinsics transaction_pool.transactions() returns
    outcome,            \* how the last entry point ended: "returned" or "panicked"
    run,                \* LockSpec: per thread, the events of its entry point still to run
    held                \* LockSpec: per thread, the locks it holds, in acquisition order

dataVars == <<peers, handshaking_peers, now, io, calls, lastOp, pool, outcome>>

lockVars == <<run, held>>

vars == <<peers, handshaking_peers, now, io, calls, lastOp, pool, outcome, run, held>>

\* HashMap helpers: a map is a function whose domain is its key set.
MapInsert(m, k, v) == [x \in DOMAIN m \cup {k} |-> IF x = k THEN v ELSE m[x]]

MapRemove(m, k) == [x \in DOMAIN m \ {k} |-> m[x]]

EmptyMap == [x \in {} |-> None]

\* The Peer built by on_status_message.  History fields: issued_ids, the
\* request ids send_message has stamped for this entry of the table;
\* sent_extrinsics, the hashes sent to the peer in Extrinsics messages;
\* delivered, the hashes of the extrinsics the peer sent and the pool took.
NewPeer(status) ==
    [ protocol_version |-> status.version,
      block_request    |-> None,
      request_timestamp |-> None,
      known_extrinsics |-> {},
      known_blocks     |-> {},
      next_request_id  |-> 0,
      issued_ids       |-> <<>>,
      sent_extrinsics  |-> {},
      delivered        |-> {} ]

\* The working state of one entry point: the tables, the pool and the calls
\* made so far.
Begin ==
    [ peers |-> peers, handshaking_peers |-> handshaking_peers,
      pool |-> pool, io |-> <<>>, calls |-> <<>>, outcome |-> "returned" ]

\* unimplemented!(): the entry point unwinds into its caller.
Panic(st) == [st EXCEPT !.outcome = "panicked"]

IoDisable(st, peer_id) ==
    [st EXCEPT !.io = Append(@, [op |-> "disable_peer", peer |-> peer_id])]

IoDisconnect(st, peer_id) ==
    [st EXCEPT !.io = Append(@, [op |-> "disconnect_peer", peer |-> peer_id])]

\* io.send(peer_id, data); fails holds the peers for which send returns Err.
IoSend(st, peer_id, data, fails) ==
    LET sent == [st EXCEPT !.io =
                    Append(@, [op |-> "send", peer |-> peer_id, data |-> data])]
    IN  IF peer_id \in fails THEN IoDisconnect(sent, peer_id) ELSE sent

Call(st, c) == [st EXCEPT !.calls = Append(@, c)]

\* ------------------------------------------------------------------------
\* send_message (free function): stamps an outbound BlockRequest
\* ------------------------------------------------------------------------
\* send_message with the increment of next_request_id left out.
StampRequest_NoIncrement(peer, r) ==
    [peer EXCEPT !.block_request = Some([r EXCEPT !.id = peer.next_request_id]),
                 !.request_timestamp = Some(now),
                 !.issued_ids = Append(@, peer.next_request_id)]

StampRequest(peer, r) ==
    [peer EXCEPT !.next_request_id = peer.next_request_id + 1,
                 !.block_request = Some([r EXCEPT !.id = peer.next_request_id]),
                 !.request_timestamp = Some(now),
                 !.issued_ids = Append(@, peer.next_request_id)]

send_message(st, peer_id, message, fails) ==
    LET stamp == message.kind = "BlockRequest" /\ peer_id \in DOMAIN st.peers
        st1 == IF stamp
               THEN [st EXCEPT !.peers[peer_id] = StampRequest(@, message)]
               ELSE st
        out == IF stamp THEN Unwrap(st1.peers[peer_id].block_request) ELSE message
    IN  IoSend(st1, peer_id, Encode(out), fails)

\* ------------------------------------------------------------------------
\* Context: buffered actions, flushed by Drop in insertion order
\* ------------------------------------------------------------------------
ActMessage(peer_id, message) ==
    [action |-> "Message", peer |-> peer_id, message |-> message]

ActDisconnect(peer_id) == [action |-> "Disconnect", peer |-> peer_id]

ActDisable(peer_id) == [action |-> "Disable", peer |-> peer_id]

RECURSIVE ContextDrop(_, _, _)
ContextDrop(st, actions, fails) ==
    IF actions = <<>> THEN st
    ELSE LET a == Head(actions)
             st1 == CASE a.action = "Message" ->
                            send_message(st, a.peer, a.message, fails)
                       [] a.action = "Disconnect" -> IoDisconnect(st, a.peer)
                       [] a.action = "Disable" -> IoDisable(st, a.peer)
         IN  ContextDrop(st1, Tail(actions), fails)

\* What ChainSync and Consensus may have pushed on a Context by the time it is
\* dropped: nothing, or one action.
\* The id ChainSync fills in is overwritten by send_message for an active peer.
PushedActions ==
    {<<>>} \cup {<<ActMessage(q, BlockRequestMsg(0))>> : q \in PeerIds}
           \cup {<<ActMessage(q, BftMsg)>> : q \in PeerIds}
           \cup {<<ActDisconnect(q)>> : q \in PeerIds}
           \cup {<<ActDisable(q)>> : q \in PeerIds}

\* The peers for which io.send fails during one entry point.
FailSets == {{}} \cup {{q} : q \in PeerIds}

\* The failures that can show while `actions` are flushed: of a peer sent to.
FailsFor(actions) ==
    {{}} \cup {{actions[i].peer} : i \in {j \in 1..Len(actions) :
                                            actions[j].action = "Message"}}

\* The request counters stay within the bound of the model.
InBounds(st) ==
    \A q \in DOMAIN st.peers : st.peers[q].next_request_id <= MaxRequestId

\* The choices the collaborators make during one entry point: whether the
\* session is expired, whether chain.info() succeeds, what ChainSync and
\* Consensus push on the Context, for which peers io.send fails, whether
\* ChainSync reports SyncState::Idle, which extrinsics the pool imports.
Quiet ==
    [expired |-> FALSE, info_ok |-> TRUE, pushed |-> <<>>, fails |-> {},
     idle |-> TRUE, accepted |-> {}]

Consistent(env) == env.fails \in FailsFor(env.pushed)

\* ------------------------------------------------------------------------
\* on_peer_connected / send_status
\* ------------------------------------------------------------------------
send_status(st, peer_id, env) ==
    IF env.info_ok
    THEN send_message(st, peer_id, StatusMsg(CURRENT_VERSION, GenesisHash), env.fails)
    ELSE st

on_peer_connected(st, peer_id, env) ==
    LET st1 == [st EXCEPT !.handshaking_peers = MapInsert(@, peer_id, now)]
    IN  send_status(st1, peer_id, env)

\* ------------------------------------------------------------------------
\* on_peer_disconnected
\* ------------------------------------------------------------------------
\* on_peer_disconnected without the test of `removed`.
on_peer_disconnected_AlwaysNotifies(st, peer, env) ==
    LET st1 == [st EXCEPT !.handshaking_peers = MapRemove(@, peer),
                          !.peers = MapRemove(@, peer)]
        st2 == Call(st1, [to |-> "consensus", fn |-> "peer_disconnected", peer |-> peer])
        st3 == Call(st2, [to |-> "sync", fn |-> "peer_disconnected", peer |-> peer])
    IN  ContextDrop(st3, env.pushed, env.fails)

on_peer_disconnected(st, peer, env) ==
    LET removed == peer \in DOMAIN st.peers
        st1 == [st EXCEPT !.handshaking_peers = MapRemove(@, peer),
                          !.peers = MapRemove(@, peer)]
        st2 == Call(st1, [to |-> "consensus", fn |-> "peer_disconnected", peer |-> peer])
        st3 == Call(st2, [to |-> "sync", fn |-> "peer_disconnected", peer |-> peer])
    IN  IF removed
        THEN ContextDrop(st3, env.pushed, env.fails)
        ELSE st1

\* ------------------------------------------------------------------------
\* on_status_message
\* ------------------------------------------------------------------------
\* on_status_message without the test for a peer that is already active.
on_status_message_NoActiveTest(st, peer_id, status, env) ==
    IF env.expired THEN st
    ELSE IF status.genesis_hash # GenesisHash THEN IoDisable(st, peer_id)
    ELSE IF status.version # CURRENT_VERSION THEN IoDisable(st, peer_id)
    ELSE LET st1 == [st EXCEPT
                        !.peers = MapInsert(@, peer_id, NewPeer(status)),
                        !.handshaking_peers = MapRemove(@, peer_id)]
             st2 == Call(st1, [to |-> "sync", fn |-> "new_peer", peer |-> peer_id])
             st3 == Call(st2, [to |-> "consensus", fn |-> "new_peer", peer |-> peer_id])
         IN  ContextDrop(st3, env.pushed, env.fails)

\* on_status_message without the test of the protocol version.
on_status_message_NoVersionTest(st, peer_id, status, env) ==
    IF env.expired THEN st
    ELSE IF peer_id \in DOMAIN st.peers THEN st
    ELSE IF status.genesis_hash # GenesisHash THEN IoDisable(st, peer_id)
    ELSE LET st1 == [st EXCEPT
                        !.peers = MapInsert(@, peer_id, NewPeer(status)),
                        !.handshaking_peers = MapRemove(@, peer_id)]
             st2 == Call(st1, [to |-> "sync", fn |-> "new_peer", peer |-> peer_id])
             st3 == Call(st2, [to |-> "consensus", fn |-> "new_peer", peer |-> peer_id])
         IN  ContextDrop(st3, env.pushed, env.fails)

on_status_message(st, peer_id, status, env) ==
    IF env.expired THEN st
    ELSE IF peer_id \in DOMAIN st.peers THEN st
    ELSE IF status.genesis_hash # GenesisHash THEN IoDisable(st, peer_id)
    ELSE IF status.version # CURRENT_VERSION THEN IoDisable(st, peer_id)
    ELSE LET st1 == [st EXCEPT
                        !.peers = MapInsert(@, peer_id, NewPeer(status)),
                        !.handshaking_peers = MapRemove(@, peer_id)]
             st2 == Call(st1, [to |-> "sync", fn |-> "new_peer", peer |-> peer_id])
             st3 == Call(st2, [to |-> "consensus", fn |-> "new_peer", peer |-> peer_id])
         IN  ContextDrop(st3, env.pushed, env.fails)

\* ------------------------------------------------------------------------
\* BlockResponse arm of handle_packet, on_block_response
\* ------------------------------------------------------------------------
\* The take with `peer.request_timestamp = None` left out.
TakeRequest_KeepTimestamp(peer) == [peer EXCEPT !.block_request = None]

\* peer.request_timestamp = None; mem::replace(&mut peer.block_request, None)
TakeRequest(peer) ==
    [peer EXCEPT !.request_timestamp = None, !.block_request = None]

\* The id test left out: every response is taken to answer the request.
ResponseMatches_Always(request, r) == TRUE

\* the test request.id != r.id, negated
ResponseMatches(request, r) == request.id = r.id

\* An unexpected response dropped without a penalty.
on_unexpected_response_Ignore(st, peer_id) == st

\* debug!("Unexpected ... packet from {}"); io.disable_peer(peer_id); return
on_unexpected_response(st, peer_id) == IoDisable(st, peer_id)

\* ChainSync::on_block_data is called with the request taken from the peer;
\* peer_block_request is what the peer table holds for the peer at the call.
on_block_response(st, peer, request, response, env) ==
    LET st1 == Call(st, [to |-> "sync", fn |-> "on_block_data", peer |-> peer,
                         request |-> request, response |-> response,
                         peer_block_request |->
                            IF peer \in DOMAIN st.peers
                            THEN st.peers[peer].block_request ELSE None])
    IN  ContextDrop(st1, env.pushed, env.fails)

on_block_response_packet(st, peer_id, r, env) ==
    IF peer_id \in DOMAIN st.peers
    THEN LET old == st.peers[peer_id].block_request
             st1 == [st EXCEPT !.peers[peer_id] = TakeRequest(@)]
         IN  IF IsSome(old)
             THEN IF ~ResponseMatches(Unwrap(old), r)
                  THEN st1
                  ELSE on_block_response(st1, peer_id, Unwrap(old), r, env)
             ELSE on_unexpected_response(st1, peer_id)
    ELSE on_unexpected_response(st, peer_id)

\* ------------------------------------------------------------------------
\* abort
\* ------------------------------------------------------------------------
abort(st) ==
    LET st1 == Call(st, [to |-> "sync", fn |-> "clear"])
        st2 == [st1 EXCEPT !.peers = EmptyMap, !.handshaking_peers = EmptyMap]
    IN  Call(st2, [to |-> "consensus", fn |-> "restart"])

\* ------------------------------------------------------------------------
\* Extrinsics: on_extrinsics, propagate_extrinsics
\* ------------------------------------------------------------------------
\* transaction_pool.import(&t) for every t of the message; env.accepted are
\* the extrinsics for which it returns a hash.
on_extrinsics(st, peer_id, extrinsics, env) ==
    IF ~env.idle THEN st
    ELSE IF peer_id \notin DOMAIN st.peers THEN st
    ELSE LET taken == extrinsics \cap env.accepted
             hashes == {ExtrinsicHash(t) : t \in taken}
         IN  [st EXCEPT !.pool = @ \cup taken,
                        !.peers[peer_id].known_extrinsics = @ \cup hashes,
                        !.peers[peer_id].delivered = @ \cup hashes]

\* The extrinsics of the pool whose hash known_extrinsics.insert takes.
ToSend(st, p) ==
    {t \in st.pool : ExtrinsicHash(t) \notin st.peers[p].known_extrinsics}

\* The loop with the hashes sent but not inserted in known_extrinsics.
PropagateTo_NoInsert(st, p, fails) ==
    LET to_send == ToSend(st, p)
        hashes == {ExtrinsicHash(t) : t \in to_send}
        st1 == [st EXCEPT !.peers[p].sent_extrinsics = @ \cup hashes]
    IN  IF to_send # {}
        THEN send_message(st1, p, ExtrinsicsMsg(to_send), fails)
        ELSE st1

\* The loop with every extrinsic of the pool sent, known or not.
PropagateTo_SendAll(st, p, fails) ==
    LET hashes == {ExtrinsicHash(t) : t \in st.pool}
        st1 == [st EXCEPT !.peers[p].known_extrinsics = @ \cup hashes,
                          !.peers[p].sent_extrinsics = @ \cup hashes]
    IN  IF st.pool # {}
        THEN send_message(st1, p, ExtrinsicsMsg(st.pool), fails)
        ELSE st1

\* One iteration of the loop of propagate_extrinsics.
PropagateTo(st, p, fails) ==
    LET to_send == ToSend(st, p)
        hashes == {ExtrinsicHash(t) : t \in to_send}
        st1 == [st EXCEPT !.peers[p].known_extrinsics = @ \cup hashes,
                          !.peers[p].sent_extrinsics = @ \cup hashes]
    IN  IF to_send # {}
        THEN send_message(st1, p, ExtrinsicsMsg(to_send), fails)
        ELSE st1

RECURSIVE PropagateAll(_, _, _)
PropagateAll(st, ps, fails) ==
    IF ps = <<>> THEN st
    ELSE PropagateAll(PropagateTo(st, Head(ps), fails), Tail(ps), fails)

\* The active peers in the order peers.iter_mut() yields them.
ActiveInOrder(st, order) == SelectSeq(order, LAMBDA p : p \in DOMAIN st.peers)

propagate_extrinsics(st, idle, order, fails) ==
    IF ~idle THEN st
    ELSE PropagateAll(st, ActiveInOrder(st, order), fails)

\* ------------------------------------------------------------------------
\* Block announcements: on_block_announce, on_block_imported
\* ------------------------------------------------------------------------
on_block_announce(st, peer_id, announce, env) ==
    LET hash == HeaderHashOf(announce.header)
        st1 == IF peer_id \in DOMAIN st.peers
               THEN [st EXCEPT !.peers[peer_id].known_blocks = @ \cup {hash}]
               ELSE st
        st2 == Call(st1, [to |-> "sync", fn |-> "on_block_announce",
                          peer |-> peer_id, hash |-> hash])
    IN  ContextDrop(st2, env.pushed, env.fails)

\* The loop with the announcement sent to every peer.
AnnounceTo_Always(st, p, hash, header, fails) ==
    send_message([st EXCEPT !.peers[p].known_blocks = @ \cup {hash}],
                 p, BlockAnnounceMsg(header), fails)

\* One iteration of the loop of on_block_imported.
AnnounceTo(st, p, hash, header, fails) ==
    IF hash \notin st.peers[p].known_blocks
    THEN send_message([st EXCEPT !.peers[p].known_blocks = @ \cup {hash}],
                      p, BlockAnnounceMsg(header), fails)
    ELSE st

RECURSIVE AnnounceAll(_, _, _, _, _)
AnnounceAll(st, ps, hash, header, fails) ==
    IF ps = <<>> THEN st
    ELSE AnnounceAll(AnnounceTo(st, Head(ps), hash, header, fails),
                     Tail(ps), hash, header, fails)

on_block_imported(st, hash, header, order, fails) ==
    LET st1 == Call(st, [to |-> "sync", fn |-> "update_chain_info", header |-> header])
        st2 == AnnounceAll(st1, ActiveInOrder(st1, order), hash, header, fails)
    IN  Call(st2, [to |-> "consensus", fn |-> "collect_garbage", hash |-> hash])

\* ------------------------------------------------------------------------
\* The local chain (Client) and on_block_request
\* ------------------------------------------------------------------------
\* BlockId::Number(n), BlockId::Hash(h)
ByNumber(n) == [by |-> "Number", number |-> n]

ByHash(h) == [by |-> "Hash", hash |-> h]

\* The header of block n of the best chain, and of a block that is not on it.
MainHeader(n) == [number |-> n, branch |-> "main"]

ForkHeader == [number |-> 1, branch |-> "fork"]

KnownHeaders == {MainHeader(n) : n \in 0..(ChainLen - 1)} \cup {ForkHeader}

\* The header a hash was computed from.
Preimage(hash) == hash[2]

\* chain.header(&id).unwrap_or(None)
ChainHeader(id) ==
    IF id.by = "Number"
    THEN IF id.number \in 0..(ChainLen - 1) THEN Some(MainHeader(id.number)) ELSE None
    ELSE IF Preimage(id.hash) \in KnownHeaders THEN Some(Preimage(id.hash)) ELSE None

\* chain.body(&BlockId::Hash(hash)).unwrap_or(None): the chain keeps the
\* bodies of the blocks with an even number.
ChainBody(header) ==
    IF header.number % 2 = 0 THEN Some(<<"body", header>>) ELSE None

\* chain.justification(&BlockId::Hash(hash)).unwrap_or(None): the blocks of
\* the best chain are justified.
ChainJustification(header) ==
    IF header.branch = "main" THEN Some(<<"justification", header>>) ELSE None

\* message::BlockRequest as a peer sends it.
InboundRequest(id, fields, from, direction, max) ==
    [kind |-> "BlockRequest", id |-> id, fields |-> fields, from |-> from,
     direction |-> direction, max |-> max]

BlockResponseWith(id, blocks) ==
    [kind |-> "BlockResponse", id |-> id, blocks |-> blocks]

Min(a, b) == IF a <= b THEN a ELSE b

\* The clamp with the request's max taken as it is.
MaxBlocks_Unclamped(max) ==
    IF IsSome(max) THEN Unwrap(max) ELSE MAX_BLOCK_DATA_RESPONSE

\* cmp::min(request.max.unwrap_or(u32::max_value()), MAX_BLOCK_DATA_RESPONSE);
\* u32::max_value() is above MAX_BLOCK_DATA_RESPONSE.
MaxBlocks(max) ==
    IF IsSome(max) THEN Min(Unwrap(max), MAX_BLOCK_DATA_RESPONSE)
    ELSE MAX_BLOCK_DATA_RESPONSE

\* message::BlockData for a header, with the fields that were asked for.
BlockData(header, fields) ==
    [ hash |-> HeaderHashOf(header),
      header |-> IF "Header" \in fields THEN Some(header) ELSE None,
      body |-> IF "Body" \in fields THEN ChainBody(header) ELSE None,
      receipt |-> None,
      message_queue |-> None,
      justification |-> IF "Justification" \in fields
                        THEN ChainJustification(header) ELSE None ]

\* match request.direction: the next id, or None for the break at number 0.
NextId(number, direction) ==
    IF direction = "Ascending" THEN Some(ByNumber(number + 1))
    ELSE IF number = 0 THEN None
    ELSE Some(ByNumber(number - 1))

\* BlockId for request.from
StartId(from) == IF from.by = "Hash" THEN ByHash(from.hash) ELSE ByNumber(from.number)

\* The loop `while let Some(header) = chain.header(&id)`, by the number k of
\* the iteration.  The header of an iteration after the first was looked up
\* by number, so iteration k holds the block k - 1 numbers from the first.
NumberAt(first, direction, k) ==
    IF direction = "Ascending" THEN first.number + (k - 1)
    ELSE first.number - (k - 1)

\* The header iteration k finds; None when the lookup finds none and when
\* iteration k - 1 left the loop at block 0.
HeaderAt(request, k) ==
    LET first == ChainHeader(StartId(request.from))
    IN  IF k = 1 \/ first = None THEN first
        ELSE LET next == NextId(NumberAt(Unwrap(first), request.direction, k - 1),
                                request.direction)
             IN  IF next = None THEN None ELSE ChainHeader(Unwrap(next))

\* Iteration k pushes no block: the loop condition fails, or blocks.len(),
\* which is k - 1, has reached max.
Stops(request, k) ==
    \/ HeaderAt(request, k) = None
    \/ k - 1 >= MaxBlocks(request.max)

\* blocks.len() when the loop is left: the iterations before the first that
\* pushes nothing.
PushedBlocks(request) ==
    (CHOOSE k \in 1..(MaxBlocks(request.max) + 1) :
        /\ Stops(request, k)
        /\ \A j \in 1..(k - 1) : ~Stops(request, j)) - 1

CollectBlocks(request) ==
    [k \in 1..PushedBlocks(request) |->
        BlockData(Unwrap(HeaderAt(request, k)), request.fields)]

on_block_request(st, peer, request, fails) ==
    IF request.fields \cap {"Receipt", "MessageQueue"} # {}
    THEN Panic(st)
    ELSE send_message(st, peer,
                      BlockResponseWith(request.id,
                                        CollectBlocks(request)),
                      fails)

\* ------------------------------------------------------------------------
\* handle_packet: decoding and dispatch
\* ------------------------------------------------------------------------
handle_packet(st, peer_id, data, env) ==
    IF ~DecodeOk(data) THEN IoDisable(st, peer_id)
    ELSE LET message == Decode(data)
         IN  CASE message.kind = "Status" ->
                    on_status_message(st, peer_id, message, env)
               [] message.kind = "BlockResponse" ->
                    on_block_response_packet(st, peer_id, message, env)
               [] message.kind = "BlockRequest" ->
                    on_block_request(st, peer_id, message, env.fails)
               [] message.kind = "BlockAnnounce" ->
                    on_block_announce(st, peer_id, message, env)
               [] message.kind = "Extrinsics" ->
                    on_extrinsics(st, peer_id, message.extrinsics, env)

\* The packets a peer may send.
Statuses ==
    { StatusMsg(CURRENT_VERSION, GenesisHash),
      StatusMsg(CURRENT_VERSION, OtherGenesisHash),
      StatusMsg(CURRENT_VERSION + 1, GenesisHash) }

\* Responses carry the ids a request can have been stamped with.
Responses == {BlockResponseMsg(i) : i \in 0..(MaxRequestId - 1)}

Packets == {Garbage} \cup {Encode(m) : m \in Statuses \cup Responses}

\* ------------------------------------------------------------------------
\* tick / maintain_peers
\* ------------------------------------------------------------------------
\* Duration::as_secs: the whole seconds of a duration.
as_secs(d) == d \div UnitsPerSec

\* The comparison with >= in place of >.
TimedOut_AtTimeout(tick, timestamp) == as_secs(tick - timestamp) >= REQUEST_TIMEOUT_SEC

\* (tick - *timestamp).as_secs() > REQUEST_TIMEOUT_SEC
TimedOut(tick, timestamp) == as_secs(tick - timestamp) > REQUEST_TIMEOUT_SEC

\* The orders in which a HashMap over PeerIds may be iterated.
IterationOrders ==
    {o \in [1..Cardinality(PeerIds) -> PeerIds] :
        \A i, j \in DOMAIN o : i # j => o[i] # o[j]}

\* One order for the active table and one for the handshaking table.
TableOrders == IterationOrders \X IterationOrders

\* The peers the loop of maintain_peers pushes on `aborting`: the active peers
\* with a request timestamp, chained with the handshaking peers.
Aborting(st, tick, order) ==
    LET activeOut(p) == /\ p \in DOMAIN st.peers
                        /\ IsSome(st.peers[p].request_timestamp)
                        /\ TimedOut(tick, Unwrap(st.peers[p].request_timestamp))
        handshakeOut(p) == /\ p \in DOMAIN st.handshaking_peers
                           /\ TimedOut(tick, st.handshaking_peers[p])
    IN  SelectSeq(order[1], activeOut) \o SelectSeq(order[2], handshakeOut)

RECURSIVE DisconnectAll(_, _)
DisconnectAll(st, aborting) ==
    IF aborting = <<>> THEN st
    ELSE DisconnectAll(IoDisconnect(st, Head(aborting)), Tail(aborting))

\* for p in aborting { self.on_peer_disconnected(io, p) }; react gives what
\* Consensus and ChainSync push when told of the disconnection of a peer.
RECURSIVE RemoveAll(_, _, _, _)
RemoveAll(st, aborting, react, fails) ==
    IF aborting = <<>> THEN st
    ELSE LET p == Head(aborting)
             env == [Quiet EXCEPT !.fails = fails,
                                  !.pushed = IF p \in DOMAIN react THEN react[p] ELSE <<>>]
         IN  RemoveAll(on_peer_disconnected(st, p, env), Tail(aborting), react, fails)

maintain_peers(st, order, react, fails) ==
    LET Go(aborting) == RemoveAll(DisconnectAll(st, aborting), aborting, react, fails)
    IN  Go(Aborting(st, now, order))

tick(st, order, react, fails) ==
    Call(maintain_peers(st, order, react, fails),
         [to |-> "consensus", fn |-> "collect_garbage"])

\* One iteration order for each list of peers a tick at the current time can
\* collect.
AnyOrder == CHOOSE o \in TableOrders : TRUE

TickOrders ==
    IF Len(Aborting(Begin, now, AnyOrder)) < 2 THEN {AnyOrder}
    ELSE {CHOOSE o \in TableOrders : Aborting(Begin, now, o) = ab :
            ab \in {Aborting(Begin, now, o) : o \in TableOrders}}

\* The active peers a tick at the current time removes.
ActiveTimedOut ==
    {p \in DOMAIN peers :
        \/ /\ IsSome(peers[p].request_timestamp)
           /\ TimedOut(now, Unwrap(peers[p].request_timestamp))
        \/ /\ p \in DOMAIN handshaking_peers
           /\ TimedOut(now, handshaking_peers[p])}

\* ------------------------------------------------------------------------
\* Spec: the entry points as atomic steps
\* ------------------------------------------------------------------------
Init ==
    /\ peers = EmptyMap
    /\ handshaking_peers = EmptyMap
    /\ now = 0
    /\ io = <<>>
    /\ calls = <<>>
    /\ lastOp = [op |-> "new"]
    /\ pool = {}
    /\ outcome = "returned"
    /\ run = [t \in Threads |-> <<>>]
    /\ held = [t \in Threads |-> <<>>]

Commit(st, op) ==
    /\ lastOp' = op
    /\ \E end \in {st} :
           /\ InBounds(end)
           /\ peers' = end.peers
           /\ handshaking_peers' = end.handshaking_peers
           /\ pool' = end.pool
           /\ outcome' = end.outcome
           /\ io' = end.io
           /\ calls' = end.calls
    /\ UNCHANGED <<now, run, held>>

\* The inputs of the entry points: the packets peers send, what the
\* collaborators push on a Context, for which peers io.send fails, whether
\* chain.info() succeeds, by how much the clock advances between two entry
\* points.  Wide has every kind of packet, push and failure, and a clock that
\* jumps past the timeout at once.
Reactions(pushed, fails) ==
    {[Quiet EXCEPT !.pushed = a, !.fails = f] : a \in pushed, f \in fails}

Wide ==
    [ packets |-> Packets, pushed |-> PushedActions,
      fails |-> FailSets, infos |-> BOOLEAN,
      reactions |-> Reactions(PushedActions, FailSets),
      deltas |-> {MaxNow} ]

\* The inputs with well-formed packets, a chain that answers, sends that
\* succeed, a ChainSync that pushes block requests only, and every jump of
\* the clock.
Calm ==
    [ packets |-> {Encode(StatusMsg(CURRENT_VERSION, GenesisHash))}
                    \cup {Encode(r) : r \in Responses},
      pushed |-> {<<>>} \cup {<<ActMessage(q, BlockRequestMsg(0))>> : q \in PeerIds},
      fails |-> {{}}, infos |-> {TRUE},
      reactions |-> Reactions({<<>>} \cup {<<ActMessage(q, BlockRequestMsg(0))>> :
                                             q \in PeerIds}, {{}}),
      deltas |-> Deltas ]

OnPeerConnectedIn(W) ==
    \E p \in PeerIds, ok \in W.infos, f \in W.fails :
        /\ f \subseteq {p}
        /\ ok \/ f = {}
        /\ Commit(on_peer_connected(Begin, p, [Quiet EXCEPT !.info_ok = ok, !.fails = f]),
                  [op |-> "on_peer_connected", peer |-> p])

OnPeerDisconnectedIn(W) ==
    \E p \in PeerIds :
        \E env \in (IF p \in DOMAIN peers THEN W.reactions ELSE {Quiet}) :
            /\ Consistent(env)
            /\ Commit(on_peer_disconnected(Begin, p, env),
                      [op |-> "on_peer_disconnected", peer |-> p])

\* The collaborators are consulted only on the paths that call them.
Promotes(p, status) ==
    /\ p \notin DOMAIN peers
    /\ status.genesis_hash = GenesisHash
    /\ status.version = CURRENT_VERSION

Forwards(p, r) ==
    /\ p \in DOMAIN peers
    /\ IsSome(peers[p].block_request)
    /\ ResponseMatches(Unwrap(peers[p].block_request), r)

PacketEnvs(W, p, data) ==
    IF ~DecodeOk(data) THEN {Quiet}
    ELSE LET m == Decode(data)
         IN  CASE m.kind = "Status" ->
                    {[Quiet EXCEPT !.expired = TRUE]} \cup
                    (IF Promotes(p, m) THEN W.reactions ELSE {Quiet})
               [] m.kind = "BlockResponse" ->
                    IF Forwards(p, m) THEN W.reactions ELSE {Quiet}
               [] m.kind = "BlockRequest" ->
                    {[Quiet EXCEPT !.fails = f] : f \in {{}, {p}} \cap W.fails}
               [] m.kind = "BlockAnnounce" -> W.reactions
               [] m.kind = "Extrinsics" ->
                    IF p \notin DOMAIN peers THEN {Quiet}
                    ELSE {[Quiet EXCEPT !.idle = FALSE]} \cup
                         {[Quiet EXCEPT !.accepted = a] : a \in SUBSET m.extrinsics}

HandlePacketIn(W) ==
    \E p \in PeerIds, data \in W.packets :
        \E env \in PacketEnvs(W, p, data) :
            /\ Consistent(env)
            /\ Commit(handle_packet(Begin, p, data, env),
                      [op |-> "handle_packet", peer |-> p, data |-> data,
                       expired |-> env.expired])

SendMessageIn(W) ==
    \E p \in PeerIds, f \in W.fails :
        /\ f \subseteq {p}
        /\ Commit(send_message(Begin, p, BlockRequestMsg(0), f),
                  [op |-> "send_message", peer |-> p])

TickIn(W) ==
    /\ lastOp' = [op |-> "tick"]
    /\ \E order \in TickOrders, f \in W.fails, react \in [ActiveTimedOut -> W.pushed] :
          /\ \/ f = {}
             \/ \E q \in ActiveTimedOut : f \in FailsFor(react[q])
          /\ Commit(tick(Begin, order, react, f), lastOp')

Abort == Commit(abort(Begin), [op |-> "abort"])

AdvanceClockIn(W) ==
    \E d \in W.deltas :
        /\ now + d <= MaxNow
        /\ now' = now + d
        /\ io' = <<>>
        /\ calls' = <<>>
        /\ lastOp' = [op |-> "clock"]
        /\ UNCHANGED <<peers, handshaking_peers, pool, outcome, run, held>>

OnPeerConnected == OnPeerConnectedIn(Wide)

OnPeerDisconnected == OnPeerDisconnectedIn(Wide)

HandlePacket == HandlePacketIn(Wide)

SendMessage == SendMessageIn(Wide)

Tick == TickIn(Wide)

AdvanceClock == AdvanceClockIn(Wide)

Next ==
    \/ OnPeerConnected
    \/ OnPeerDisconnected
    \/ HandlePacket
    \/ SendMessage
    \/ Tick
    \/ Abort
    \/ AdvanceClock

Spec == Init /\ [][Next]_vars

\* TimeoutSpec: the entry points with the Calm inputs, and a timer thread
\* that calls tick again and again.
CalmTick == TickIn(Calm)

TimeoutNext ==
    \/ OnPeerConnectedIn(Calm)
    \/ OnPeerDisconnectedIn(Calm)
    \/ HandlePacketIn(Calm)
    \/ SendMessageIn(Calm)
    \/ CalmTick
    \/ Abort
    \/ AdvanceClockIn(Calm)

TimeoutSpec == Init /\ [][TimeoutNext]_vars /\ WF_vars(CalmTick)

\* ------------------------------------------------------------------------
\* GossipSpec: extrinsics.  AnnounceSpec: block announcements
\* ------------------------------------------------------------------------
\* The inputs of the gossip: peers that pass the handshake and send
\* extrinsics; collaborators that push nothing.
Gossip ==
    [ packets |-> {Encode(StatusMsg(CURRENT_VERSION, GenesisHash))}
                    \cup {Encode(ExtrinsicsMsg(x)) : x \in SUBSET Extrinsics \ {{}}},
      pushed |-> {<<>>}, fails |-> {{}}, infos |-> {TRUE},
      reactions |-> {Quiet}, deltas |-> {} ]

\* The same with peers that announce blocks.
Announce ==
    [ packets |-> {Encode(StatusMsg(CURRENT_VERSION, GenesisHash))}
                    \cup {Encode(BlockAnnounceMsg(h)) : h \in Headers},
      pushed |-> {<<>>}, fails |-> {{}}, infos |-> {TRUE},
      reactions |-> {Quiet}, deltas |-> {} ]

\* The orders peers.iter_mut() can take over the active table.
ActiveOrders ==
    IF Cardinality(DOMAIN peers) < 2 THEN {AnyOrder[1]} ELSE IterationOrders

PropagateExtrinsics ==
    \E idle \in BOOLEAN, order \in ActiveOrders, f \in FailSets :
        /\ f \subseteq DOMAIN peers
        /\ idle \/ f = {}
        /\ Commit(propagate_extrinsics(Begin, idle, order, f),
                  [op |-> "propagate_extrinsics", idle |-> idle])

OnBlockImported ==
    \E header \in Headers, order \in ActiveOrders, f \in FailSets :
        /\ f \subseteq DOMAIN peers
        /\ Commit(on_block_imported(Begin, HeaderHashOf(header), header, order, f),
                  [op |-> "on_block_imported", hash |-> HeaderHashOf(header),
                   header |-> header])

\* The pool takes an extrinsic submitted locally, or drops one.
PoolChange ==
    \E t \in Extrinsics :
        /\ pool' = IF t \in pool THEN pool \ {t} ELSE pool \cup {t}
        /\ io' = <<>>
        /\ calls' = <<>>
        /\ lastOp' = [op |-> "pool"]
        /\ UNCHANGED <<peers, handshaking_peers, now, outcome, run, held>>

GossipNext ==
    \/ OnPeerConnectedIn(Gossip)
    \/ OnPeerDisconnectedIn(Gossip)
    \/ HandlePacketIn(Gossip)
    \/ PropagateExtrinsics
    \/ PoolChange
    \/ Abort

GossipSpec == Init /\ [][GossipNext]_vars

AnnounceNext ==
    \/ OnPeerConnectedIn(Announce)
    \/ OnPeerDisconnectedIn(Announce)
    \/ HandlePacketIn(Announce)
    \/ OnBlockImported
    \/ Abort

AnnounceSpec == Init /\ [][AnnounceNext]_vars

\* ------------------------------------------------------------------------
\* ServerSpec: block requests of the peers
\* ------------------------------------------------------------------------
\* Where a request starts: at the ends of the chain, beyond them, at a block
\* known by its hash, on the best chain or not, at an unknown hash.
Froms ==
    {ByNumber(n) : n \in {0, 1, ChainLen - 1, ChainLen}}
        \cup {ByHash(HeaderHashOf(h)) : h \in {MainHeader(2), ForkHeader,
                                               MainHeader(ChainLen)}}

Directions == {"Ascending", "Descending"}

AllFields == {"Header", "Body", "Justification"}

FieldMasks ==
    {{}, {"Header"}, {"Body", "Justification"}, AllFields,
     {"Header", "Receipt"}, {"MessageQueue"}}

\* Every start and direction with a small limit; no limit and one above
\* MAX_BLOCK_DATA_RESPONSE with the walks that are long enough to meet it;
\* every field mask and id with a walk from block 1.
Requests ==
    {InboundRequest(7, AllFields, from, direction, Some(m)) :
        from \in Froms, direction \in Directions, m \in {0, 2}}
      \cup
    {InboundRequest(7, AllFields, from, direction, max) :
        from \in {ByNumber(0), ByNumber(ChainLen - 1)},
        direction \in Directions,
        max \in {None, Some(MAX_BLOCK_DATA_RESPONSE + 1)}}
      \cup
    {InboundRequest(id, fields, ByNumber(1), "Descending", Some(3)) :
        id \in {0, 7}, fields \in FieldMasks}

\* The inputs with peers that pass the handshake, ask for blocks, and send
\* bytes that are no message.
Server ==
    [ packets |-> {Garbage, Encode(StatusMsg(CURRENT_VERSION, GenesisHash))}
                    \cup {Encode(r) : r \in Requests},
      pushed |-> {<<>>}, fails |-> {{}}, infos |-> {TRUE},
      reactions |-> {Quiet}, deltas |-> {} ]

ServerNext ==
    \/ OnPeerConnectedIn(Server)
    \/ OnPeerDisconnectedIn(Server)
    \/ HandlePacketIn(Server)

ServerSpec == Init /\ [][ServerNext]_vars

\* ------------------------------------------------------------------------
\* LockSpec: the entry points as sequences of lock and SyncIo events
\* ------------------------------------------------------------------------
\* The fields of Protocol that are locks, in the order of their declaration
\* ("Lock must always be taken in order declared here"); peers is the lock of
\* context_data.
LockOrder == <<"specialization", "sync", "consensus", "peers", "handshaking">>

Rank(lock) == CHOOSE i \in DOMAIN LockOrder : LockOrder[i] = lock

\* An event of function fn: taking a lock (mode read, write, or lock for the
\* Mutex), dropping its guard, or calling SyncIo.
Acq(fn, lock, mode) == [kind |-> "acq", fn |-> fn, lock |-> lock, mode |-> mode]

Rel(fn, lock) == [kind |-> "rel", fn |-> fn, lock |-> lock]

Io(fn, call) == [kind |-> "io", fn |-> fn, call |-> call]

Then(A, B) == {a \o b : a \in A, b \in B}

\* io.send, and io.disconnect_peer when it returns Err.
SendPaths(fn) == {<<Io(fn, "send")>>, <<Io(fn, "send"), Io(fn, "disconnect_peer")>>}

\* send_message for a BlockRequest takes the peer table to stamp it.
SendRequestPaths ==
    Then({<<Acq("send_message", "peers", "write"), Rel("send_message", "peers")>>},
         SendPaths("send_message"))

\* Context::drop for a buffer of at most one action.
ContextDropPaths ==
    {<<>>} \cup SendRequestPaths \cup SendPaths("send_message")
           \cup {<<Io("Context::drop", "disconnect_peer")>>,
                 <<Io("Context::drop", "disable_peer")>>}

StatusPaths ==
    {<<Acq("status", "sync", "read"), Acq("status", "peers", "read"),
       Rel("status", "peers"), Rel("status", "sync")>>}

OnStatusMessagePaths ==
    LET fn == "on_status_message"
        take == <<Acq(fn, "sync", "write"), Acq(fn, "consensus", "lock"),
                  Acq(fn, "peers", "write"), Acq(fn, "handshaking", "write")>>
        inner == <<Rel(fn, "handshaking"), Rel(fn, "peers")>>
        outer == <<Rel(fn, "consensus"), Rel(fn, "sync")>>
    IN  \* the peer is already active
        {take \o inner \o outer}
        \* genesis hash or version mismatch
        \cup {take \o <<Io(fn, "disable_peer")>> \o inner \o outer}
        \* the peer is promoted; the Context is dropped before the guards
        \cup Then(Then({take \o inner}, ContextDropPaths), {outer})

OnBlockRequestPaths == SendPaths("send_message")

BlockResponsePaths ==
    LET fn == "handle_packet"
        take == <<Acq(fn, "peers", "write")>>
    IN  \* no such peer, or no outstanding request
        {take \o <<Io(fn, "disable_peer"), Rel(fn, "peers")>>}
        \* mismatched id
        \cup {take \o <<Rel(fn, "peers")>>}
        \* on_block_response
        \cup Then(Then({take \o <<Rel(fn, "peers"),
                                  Acq("on_block_response", "sync", "write")>>},
                       ContextDropPaths),
                  {<<Rel("on_block_response", "sync")>>})

OnBlockAnnouncePaths ==
    LET fn == "on_block_announce"
    IN  Then(Then({<<Acq(fn, "peers", "write"), Rel(fn, "peers"),
                     Acq(fn, "sync", "write")>>},
                  ContextDropPaths),
             {<<Rel(fn, "sync")>>})

OnBftMessagePaths ==
    Then(Then({<<Acq("on_bft_message", "consensus", "lock")>>}, ContextDropPaths),
         {<<Rel("on_bft_message", "consensus")>>})

OnExtrinsicsPaths ==
    LET fn == "on_extrinsics"
        gate == <<Acq(fn, "sync", "read"), Rel(fn, "sync")>>
    IN  {gate, gate \o <<Acq(fn, "peers", "write"), Rel(fn, "peers")>>}

OnChainSpecificPaths ==
    Then(Then({<<Acq("on_chain_specific", "specialization", "write")>>},
              ContextDropPaths),
         {<<Rel("on_chain_specific", "specialization")>>})

HandlePacketPaths ==
    {<<Io("handle_packet", "disable_peer")>>}
        \cup OnStatusMessagePaths \cup OnBlockRequestPaths \cup BlockResponsePaths
        \cup OnBlockAnnouncePaths \cup OnBftMessagePaths \cup OnExtrinsicsPaths
        \cup OnChainSpecificPaths

OnPeerConnectedPaths ==
    LET fn == "on_peer_connected"
        insert == <<Acq(fn, "handshaking", "write"), Rel(fn, "handshaking")>>
    IN  \* chain.info() fails
        {insert}
        \cup Then({insert \o <<Acq("send_status", "specialization", "read"),
                              Rel("send_status", "specialization")>>},
                  SendPaths("send_message"))

OnPeerDisconnectedPaths ==
    LET fn == "on_peer_disconnected"
        remove == <<Acq(fn, "peers", "write"), Acq(fn, "handshaking", "write"),
                    Rel(fn, "handshaking"), Rel(fn, "peers")>>
        notify == <<Acq(fn, "consensus", "lock"), Rel(fn, "consensus"),
                    Acq(fn, "sync", "write"), Rel(fn, "sync")>>
    IN  {remove} \cup Then({remove \o notify}, ContextDropPaths)

SendBftMessagePaths ==
    Then(Then({<<Acq("send_bft_message", "consensus", "lock")>>}, ContextDropPaths),
         {<<Rel("send_bft_message", "consensus")>>})

\* maintain_peers with no peer timed out, or one; then the garbage pass of tick.
TickPaths ==
    LET fn == "maintain_peers"
        scan == <<Acq(fn, "peers", "read"), Acq(fn, "handshaking", "read")>>
        done == <<Rel(fn, "handshaking"), Rel(fn, "peers")>>
        garbage == <<Acq("tick", "consensus", "lock"), Rel("tick", "consensus")>>
    IN  {scan \o done \o garbage}
        \cup Then(Then({scan \o <<Io(fn, "disconnect_peer")>> \o done},
                       OnPeerDisconnectedPaths),
                  {garbage})

\* The peer table is written while the messages are sent; one peer has news.
PropagateExtrinsicsPaths ==
    LET fn == "propagate_extrinsics"
        gate == <<Acq(fn, "sync", "read"), Rel(fn, "sync")>>
    IN  {gate, gate \o <<Acq(fn, "peers", "write"), Rel(fn, "peers")>>}
        \cup Then(Then({gate \o <<Acq(fn, "peers", "write")>>},
                       SendPaths("send_message")),
                  {<<Rel(fn, "peers")>>})

AbortPaths ==
    {<<Acq("abort", "sync", "write"), Acq("abort", "peers", "write"),
       Acq("abort", "handshaking", "write"),
       Acq("abort", "consensus", "lock"), Rel("abort", "consensus"),
       Rel("abort", "handshaking"), Rel("abort", "peers"), Rel("abort", "sync")>>}

OnBlockImportedPaths ==
    LET fn == "on_block_imported"
        update == <<Acq(fn, "sync", "write"), Rel(fn, "sync"), Acq(fn, "peers", "write")>>
        garbage == <<Acq(fn, "consensus", "lock"), Rel(fn, "consensus"), Rel(fn, "peers")>>
    IN  {update \o garbage}
        \cup Then(Then({update}, SendPaths("send_message")), {garbage})

EntryPaths ==
    StatusPaths \cup HandlePacketPaths \cup OnPeerConnectedPaths
        \cup OnPeerDisconnectedPaths \cup SendBftMessagePaths \cup TickPaths
        \cup PropagateExtrinsicsPaths \cup AbortPaths \cup OnBlockImportedPaths

\* parking_lot RwLock and Mutex: a reader waits for a writer, a writer or a
\* Mutex owner waits for every holder.
Holders(lock) ==
    {h \in UNION {{held[u][i] : i \in DOMAIN held[u]} : u \in Threads} : h.lock = lock}

CanAcquire(lock, mode) ==
    IF mode = "read"
    THEN \A h \in Holders(lock) : h.mode = "read"
    ELSE Holders(lock) = {}

Running(t) == run[t] # <<>>

NextEvent(t) == Head(run[t])

\* A thread enters an entry point, on one of its paths.
Start(t) ==
    /\ ~Running(t)
    /\ \E path \in EntryPaths : run' = [run EXCEPT ![t] = path]
    /\ UNCHANGED <<held, dataVars>>

Acquire(t) ==
    /\ Running(t)
    /\ NextEvent(t).kind = "acq"
    /\ CanAcquire(NextEvent(t).lock, NextEvent(t).mode)
    /\ held' = [held EXCEPT ![t] =
                    Append(@, [lock |-> NextEvent(t).lock, mode |-> NextEvent(t).mode])]
    /\ run' = [run EXCEPT ![t] = Tail(@)]
    /\ UNCHANGED dataVars

Release(t) ==
    /\ Running(t)
    /\ NextEvent(t).kind = "rel"
    /\ held' = [held EXCEPT ![t] = SelectSeq(@, LAMBDA h : h.lock # NextEvent(t).lock)]
    /\ run' = [run EXCEPT ![t] = Tail(@)]
    /\ UNCHANGED dataVars

IoCall(t) ==
    /\ Running(t)
    /\ NextEvent(t).kind = "io"
    /\ run' = [run EXCEPT ![t] = Tail(@)]
    /\ UNCHANGED <<held, dataVars>>

LockNext ==
    \E t \in Threads :
        \/ Start(t)
        \/ Acquire(t)
        \/ Release(t)
        \/ IoCall(t)

LockSpec == Init /\ [][LockNext]_vars

\* ------------------------------------------------------------------------
\* Properties of Spec
\* ------------------------------------------------------------------------
IsPacket(op, kind) ==
    /\ op.op = "handle_packet"
    /\ DecodeOk(op.data)
    /\ Decode(op.data).kind = kind

\* The calls of `fn` in a call log.
CallsOf(log, fn) == SelectSeq(log, LAMBDA c : c.fn = fn)

\* The SyncIo calls `op` for `peer` in an io log.
IoOf(log, op, peer) == SelectSeq(log, LAMBDA c : c.op = op /\ c.peer = peer)

\* C1: no peer-id is in the active peer table and in the handshaking table at
\* the same time, whatever sequence of on_peer_connected, handle_packet,
\* on_peer_disconnected, tick and abort has run.
C1_TablesDisjoint == DOMAIN peers \cap DOMAIN handshaking_peers = {}

\* C2: every peer of the active table has an outstanding block_request if and
\* only if it has a request_timestamp.
C2_RequestIffTimestamp ==
    \A p \in DOMAIN peers :
        IsSome(peers[p].block_request) <=> IsSome(peers[p].request_timestamp)

\* A response has just been received from a peer that had been sent a request,
\* and another peer still has its request outstanding.
C2_Witness ==
    /\ IsPacket(lastOp, "BlockResponse")
    /\ lastOp.peer \in DOMAIN peers
    /\ peers[lastOp.peer].next_request_id > 0
    /\ peers[lastOp.peer].block_request = None
    /\ \E q \in DOMAIN peers : IsSome(peers[q].block_request)

\* C3: whenever handle_packet forwards a BlockResponse from peer P to ChainSync
\* (on_block_data), the response is the one that arrived, its id equals the id
\* of the request stored as P's block_request when it arrived, that request is
\* the one handed to ChainSync, and P's block_request is empty at the call.
C3_ForwardedMatchesStored ==
    [][\A i \in DOMAIN calls' :
          calls'[i].fn = "on_block_data" =>
              LET c == calls'[i]
              IN  /\ IsPacket(lastOp', "BlockResponse")
                  /\ c.peer = lastOp'.peer
                  /\ c.response = Decode(lastOp'.data)
                  /\ c.peer \in DOMAIN peers
                  /\ peers[c.peer].block_request = Some(c.request)
                  /\ c.response.id = c.request.id
                  /\ c.peer_block_request = None]_vars

\* A response with id 1 has been forwarded to ChainSync.
C3_Witness ==
    /\ Len(CallsOf(calls, "on_block_data")) = 1
    /\ CallsOf(calls, "on_block_data")[1].response.id = 1

\* C4: a BlockResponse whose id differs from the id of the outstanding request
\* of an active peer leaves the request and its timestamp unchanged, forwards
\* nothing to ChainSync, and neither disables nor disconnects the peer.
C4_MismatchKeepsRequest ==
    [][(/\ IsPacket(lastOp', "BlockResponse")
        /\ lastOp'.peer \in DOMAIN peers
        /\ IsSome(peers[lastOp'.peer].block_request)
        /\ Unwrap(peers[lastOp'.peer].block_request).id # Decode(lastOp'.data).id)
       => /\ lastOp'.peer \in DOMAIN peers'
          /\ peers'[lastOp'.peer].block_request = peers[lastOp'.peer].block_request
          /\ peers'[lastOp'.peer].request_timestamp = peers[lastOp'.peer].request_timestamp
          /\ CallsOf(calls', "on_block_data") = <<>>
          /\ IoOf(io', "disable_peer", lastOp'.peer) = <<>>
          /\ IoOf(io', "disconnect_peer", lastOp'.peer) = <<>>]_vars

\* C5: a BlockResponse from a peer that is not in the active table, or from an
\* active peer with no outstanding block request, makes handle_packet call
\* SyncIo.disable_peer for that peer, and nothing is forwarded to ChainSync.
C5_UnsolicitedDisables ==
    [][(/\ IsPacket(lastOp', "BlockResponse")
        /\ \/ lastOp'.peer \notin DOMAIN peers
           \/ peers[lastOp'.peer].block_request = None)
       => /\ io' = <<[op |-> "disable_peer", peer |-> lastOp'.peer]>>
          /\ calls' = <<>>]_vars

\* An active peer with no outstanding request has just sent a BlockResponse
\* and has been disabled.
C5_Witness ==
    /\ IsPacket(lastOp, "BlockResponse")
    /\ lastOp.peer \in DOMAIN peers
    /\ io = <<[op |-> "disable_peer", peer |-> lastOp.peer]>>

\* The ids of the block requests sent to `peer` in an io log, in order.
RECURSIVE SentRequestIds(_, _)
SentRequestIds(log, peer) ==
    IF log = <<>> THEN <<>>
    ELSE LET c == Head(log)
             here == IF c.op = "send" /\ c.peer = peer
                        /\ Decode(c.data).kind = "BlockRequest"
                     THEN <<Decode(c.data).id>> ELSE <<>>
         IN  here \o SentRequestIds(Tail(log), peer)

StrictlyIncreasing(seq) == \A i, j \in DOMAIN seq : i < j => seq[i] < seq[j]

\* C6: the request ids send_message stamps on the BlockRequests for an active
\* peer are strictly increasing over the lifetime of the peer in the table;
\* each stamped id is the peer's next_request_id before the send, which the
\* send increments; the stored block_request is the last one stamped.
C6_RequestIdsIncrease ==
    [][\A p \in DOMAIN peers' :
          LET before == IF p \in DOMAIN peers THEN peers[p].next_request_id ELSE 0
              sent == SentRequestIds(io', p)
          IN  /\ sent = [i \in 1..Len(sent) |-> before + i - 1]
              /\ peers'[p].next_request_id = before + Len(sent)
              /\ sent # <<>> =>
                    peers'[p].block_request = Some(BlockRequestMsg(sent[Len(sent)]))
              /\ StrictlyIncreasing(peers'[p].issued_ids)
              /\ Len(peers'[p].issued_ids) = peers'[p].next_request_id]_vars

\* A peer has been sent two block requests; the second one is the stored one.
C6_Witness ==
    \E p \in DOMAIN peers :
        /\ peers[p].issued_ids = <<0, 1>>
        /\ peers[p].block_request = Some(BlockRequestMsg(1))
        /\ SentRequestIds(io, p) = <<1>>

\* The timestamps of peer p that tick looks at.
Timestamps(p) ==
    (IF p \in DOMAIN peers /\ IsSome(peers[p].request_timestamp)
     THEN {Unwrap(peers[p].request_timestamp)} ELSE {})
    \cup (IF p \in DOMAIN handshaking_peers THEN {handshaking_peers[p]} ELSE {})

\* A timestamp of p is older than REQUEST_TIMEOUT.
OlderThanTimeout(p) ==
    \E ts \in Timestamps(p) : now - ts > REQUEST_TIMEOUT_SEC * UnitsPerSec

\* A timestamp of p is at least one second older than REQUEST_TIMEOUT.
WholeSecondsExceedTimeout(p) ==
    \E ts \in Timestamps(p) : now - ts >= (REQUEST_TIMEOUT_SEC + 1) * UnitsPerSec

PeerCalls(log, to, fn, p) ==
    SelectSeq(log, LAMBDA c : c.to = to /\ c.fn = fn /\ c.peer = p)

\* What a tick does to a peer it times out.  Primed: the state after the tick.
TickDisconnects(p) ==
    /\ IoOf(io', "disconnect_peer", p) # <<>>
    /\ p \notin DOMAIN peers'
    /\ p \notin DOMAIN handshaking_peers'
    /\ Len(PeerCalls(calls', "sync", "peer_disconnected", p))
            = (IF p \in DOMAIN peers THEN 1 ELSE 0)
    /\ Len(PeerCalls(calls', "consensus", "peer_disconnected", p))
            = (IF p \in DOMAIN peers THEN 1 ELSE 0)

\* What a tick does to a peer it does not time out.
TickLeavesAlone(p) ==
    /\ p \in DOMAIN peers <=> p \in DOMAIN peers'
    /\ p \in DOMAIN handshaking_peers <=> p \in DOMAIN handshaking_peers'
    /\ p \in DOMAIN handshaking_peers => handshaking_peers'[p] = handshaking_peers[p]
    /\ PeerCalls(calls', "sync", "peer_disconnected", p) = <<>>
    /\ PeerCalls(calls', "consensus", "peer_disconnected", p) = <<>>

\* C10: a tick disconnects and removes every peer with a request or handshake
\* timestamp older than REQUEST_TIMEOUT (40 s), notifying ChainSync and
\* Consensus if it was active, and leaves the other peers alone.
C10_OlderThanTimeoutDisconnected ==
    [][lastOp'.op = "tick" =>
          \A p \in PeerIds :
              IF OlderThanTimeout(p) THEN TickDisconnects(p) ELSE TickLeavesAlone(p)]_vars

\* C10, amended: a tick disconnects and removes every peer with a timestamp
\* whose age in whole seconds exceeds REQUEST_TIMEOUT (41 s old or more),
\* notifying ChainSync and Consensus if it was active, and leaves the other
\* peers alone; with ticks repeated, every such peer stops being in the tables
\* with that timestamp.
C10_WholeSecondsTimeout ==
    /\ [][lastOp'.op = "tick" =>
             \A p \in PeerIds :
                 IF WholeSecondsExceedTimeout(p)
                 THEN TickDisconnects(p) ELSE TickLeavesAlone(p)]_vars
    /\ \A p \in PeerIds :
          WholeSecondsExceedTimeout(p) ~> ~WholeSecondsExceedTimeout(p)

\* A tick has just disconnected an active peer with a timed-out request and
\* told ChainSync and Consensus, while another active peer stays.
C10_Witness ==
    /\ lastOp.op = "tick"
    /\ \E p \in PeerIds :
          /\ IoOf(io, "disconnect_peer", p) # <<>>
          /\ PeerCalls(calls, "sync", "peer_disconnected", p) # <<>>
          /\ PeerCalls(calls, "consensus", "peer_disconnected", p) # <<>>
          /\ p \notin DOMAIN peers
    /\ \E q \in DOMAIN peers : IsSome(peers[q].request_timestamp)

\* A Status that passes the genesis and version checks.
GoodStatus(status) ==
    status.genesis_hash = GenesisHash /\ status.version = CURRENT_VERSION

\* The peer a promotion leaves in the table: the fresh Peer, stamped with the
\* block requests the flush of the Context sent to it.
Promoted(status, sent) ==
    IF sent = <<>> THEN NewPeer(status)
    ELSE [NewPeer(status) EXCEPT
            !.next_request_id = Len(sent),
            !.block_request = Some(BlockRequestMsg(sent[Len(sent)])),
            !.request_timestamp = Some(now),
            !.issued_ids = sent]

\* C11: a matching Status from a handshaking peer on a session that is not
\* expired puts the peer in the active table as a fresh Peer (no request,
\* empty known sets, next_request_id 0, before the requests of this very
\* call are stamped), removes it from the handshaking table and calls
\* sync.new_peer and consensus.new_peer once each; a Status from a peer that
\* is active calls neither and leaves the peer's state as it is.
C11_StatusPromotesOnce ==
    [][(IsPacket(lastOp', "Status") /\ ~lastOp'.expired) =>
          LET p == lastOp'.peer
              status == Decode(lastOp'.data)
          IN  /\ (p \notin DOMAIN peers /\ p \in DOMAIN handshaking_peers
                      /\ GoodStatus(status))
                  => /\ p \in DOMAIN peers'
                     /\ p \notin DOMAIN handshaking_peers'
                     /\ peers'[p] = Promoted(status, SentRequestIds(io', p))
                     /\ SentRequestIds(io', p)
                            = [i \in 1..Len(SentRequestIds(io', p)) |-> i - 1]
                     /\ Len(PeerCalls(calls', "sync", "new_peer", p)) = 1
                     /\ Len(PeerCalls(calls', "consensus", "new_peer", p)) = 1
              /\ p \in DOMAIN peers
                  => /\ p \in DOMAIN peers'
                     /\ peers'[p] = peers[p]
                     /\ calls' = <<>>]_vars

\* A handshaking peer has just been promoted by its Status, and an active
\* peer with a request outstanding has sent a Status before.
C11_Witness ==
    /\ IsPacket(lastOp, "Status")
    /\ ~lastOp.expired
    /\ lastOp.peer \in DOMAIN peers
    /\ Len(PeerCalls(calls, "sync", "new_peer", lastOp.peer)) = 1
    /\ peers[lastOp.peer] = NewPeer(Decode(lastOp.data))
    /\ \E q \in DOMAIN peers : q # lastOp.peer /\ IsSome(peers[q].block_request)

\* What a rejected Status does: the peer is disabled, stays out of the active
\* table, and neither collaborator hears of it.
StatusRejected(p) ==
    /\ io' = <<[op |-> "disable_peer", peer |-> p]>>
    /\ p \notin DOMAIN peers'
    /\ calls' = <<>>

\* C12: a Status with another genesis hash or another version, from a peer
\* that is not active, makes handle_packet call SyncIo.disable_peer for the
\* peer; the peer is not inserted and new_peer is not called.
C12_BadStatusDisables ==
    [][(/\ IsPacket(lastOp', "Status")
        /\ lastOp'.peer \notin DOMAIN peers
        /\ ~GoodStatus(Decode(lastOp'.data)))
       => StatusRejected(lastOp'.peer)]_vars

\* C12, amended: the same for a session that is not expired.
C12_BadStatusDisablesUnlessExpired ==
    [][(/\ IsPacket(lastOp', "Status")
        /\ ~lastOp'.expired
        /\ lastOp'.peer \notin DOMAIN peers
        /\ ~GoodStatus(Decode(lastOp'.data)))
       => StatusRejected(lastOp'.peer)]_vars

\* A handshaking peer has been disabled for a Status of another version.
C12_Witness ==
    /\ IsPacket(lastOp, "Status")
    /\ ~lastOp.expired
    /\ Decode(lastOp.data).version # CURRENT_VERSION
    /\ lastOp.peer \in DOMAIN handshaking_peers
    /\ lastOp.peer \notin DOMAIN peers
    /\ io = <<[op |-> "disable_peer", peer |-> lastOp.peer]>>

\* C13: a Status from a peer that is already in the active table makes
\* handle_packet call SyncIo.disable_peer for that peer.
C13_DuplicateStatusDisables ==
    [][(/\ IsPacket(lastOp', "Status")
        /\ ~lastOp'.expired
        /\ lastOp'.peer \in DOMAIN peers)
       => IoOf(io', "disable_peer", lastOp'.peer) # <<>>]_vars

\* The payloads of the messages of `kind` sent to `peer` in an io log, in order.
RECURSIVE SentTo(_, _, _)
SentTo(log, peer, kind) ==
    IF log = <<>> THEN <<>>
    ELSE LET c == Head(log)
             here == IF c.op = "send" /\ c.peer = peer /\ Decode(c.data).kind = kind
                     THEN <<Decode(c.data)>> ELSE <<>>
         IN  here \o SentTo(Tail(log), peer, kind)

\* The hashes of the extrinsics sent to `peer` in an io log.
HashesSentTo(log, peer) ==
    {ExtrinsicHash(t) : t \in UNION {SentTo(log, peer, "Extrinsics")[i].extrinsics :
                                         i \in DOMAIN SentTo(log, peer, "Extrinsics")}}

PoolKnownToAll ==
    \A p \in DOMAIN peers' :
        \A t \in pool : ExtrinsicHash(t) \in peers'[p].known_extrinsics

\* C14: after propagate_extrinsics, every active peer knows the hash of every
\* transaction that was in the pool when the call started, whatever the sync
\* state is.
C14_PropagateMakesKnown ==
    [][lastOp'.op = "propagate_extrinsics" => PoolKnownToAll]_vars

\* C14, amended: the same for a call that finds ChainSync in SyncState::Idle;
\* a call in another sync state changes nothing and sends nothing.
C14_IdlePropagateMakesKnown ==
    [][lastOp'.op = "propagate_extrinsics" =>
          IF lastOp'.idle THEN PoolKnownToAll
          ELSE peers' = peers /\ io' = <<>>]_vars

\* An idle propagate_extrinsics has just sent both extrinsics of the pool to
\* one of two active peers.
C14_Witness ==
    /\ lastOp.op = "propagate_extrinsics"
    /\ lastOp.idle
    /\ pool = Extrinsics
    /\ Cardinality(DOMAIN peers) = 2
    /\ \E p \in DOMAIN peers :
          HashesSentTo(io, p) = {ExtrinsicHash(t) : t \in Extrinsics}

\* No hash is in two Extrinsics messages sent to `peer` in an io log.
NoRepeatIn(log, peer) ==
    LET msgs == SentTo(log, peer, "Extrinsics")
    IN  \A i, j \in DOMAIN msgs :
            i # j => msgs[i].extrinsics \cap msgs[j].extrinsics = {}

\* Within one lifetime of a peer in the active table a hash is sent to it in
\* an Extrinsics message at most once, and never after the peer itself
\* delivered the extrinsic and the pool took it; peers that are not active
\* are sent none.
SentOncePerLifetime ==
    \A p \in PeerIds :
        IF p \in DOMAIN peers
        THEN /\ NoRepeatIn(io', p)
             /\ HashesSentTo(io', p) \cap peers[p].sent_extrinsics = {}
             /\ HashesSentTo(io', p) \cap peers[p].delivered = {}
             /\ HashesSentTo(io', p) \cap peers[p].known_extrinsics = {}
        ELSE HashesSentTo(io', p) = {}

\* Every active peer is sent, in one message, the pool hashes it did not know.
UnknownSentToAll ==
    \A p \in DOMAIN peers :
        /\ HashesSentTo(io', p) =
              {ExtrinsicHash(t) : t \in pool} \ peers[p].known_extrinsics
        /\ Len(SentTo(io', p, "Extrinsics")) <= 1

\* C15: a hash is sent to a peer at most once in a lifetime and never to the
\* peer that delivered it; a propagate_extrinsics sends every active peer
\* the pool hashes it did not know; a second propagate_extrinsics, with no
\* pool change in between, sends nothing.
C15_ExtrinsicSentOnce ==
    [][/\ SentOncePerLifetime
       /\ lastOp'.op = "propagate_extrinsics" => UnknownSentToAll
       /\ (lastOp.op = "propagate_extrinsics" /\ lastOp'.op = "propagate_extrinsics")
             => io' = <<>>]_vars

\* C15, amended: the same, where the propagate_extrinsics that sends finds
\* the sync idle, and the second propagate_extrinsics follows one that found
\* the sync idle.
C15_ExtrinsicSentOnceWhenIdle ==
    [][/\ SentOncePerLifetime
       /\ (lastOp'.op = "propagate_extrinsics" /\ lastOp'.idle) => UnknownSentToAll
       /\ (/\ lastOp.op = "propagate_extrinsics" /\ lastOp.idle
           /\ lastOp'.op = "propagate_extrinsics") => io' = <<>>]_vars

\* A propagate_extrinsics has just sent extrinsic y to both active peers and
\* extrinsic x to one of them only: the other one had delivered x itself.
C15_Witness ==
    /\ lastOp.op = "propagate_extrinsics"
    /\ \E p, q \in DOMAIN peers :
          /\ p # q
          /\ peers[p].delivered = {ExtrinsicHash("x")}
          /\ HashesSentTo(io, p) = {ExtrinsicHash("y")}
          /\ HashesSentTo(io, q) = {ExtrinsicHash("x"), ExtrinsicHash("y")}

\* C16: after on_block_imported(hash, header) every active peer has hash in
\* known_blocks, and one BlockAnnounce with the header has been sent to each
\* active peer that did not have it before, and to no other peer.
C16_ImportAnnouncedToUnaware ==
    [][lastOp'.op = "on_block_imported" =>
          /\ DOMAIN peers' = DOMAIN peers
          /\ \A p \in DOMAIN peers' : lastOp'.hash \in peers'[p].known_blocks
          /\ \A p \in PeerIds :
                SentTo(io', p, "BlockAnnounce") =
                    IF p \in DOMAIN peers /\ lastOp'.hash \notin peers[p].known_blocks
                    THEN <<BlockAnnounceMsg(lastOp'.header)>>
                    ELSE <<>>]_vars

\* A block has just been imported and announced to one of two active peers;
\* the other one had announced it itself.
C16_Witness ==
    /\ lastOp.op = "on_block_imported"
    /\ Cardinality(DOMAIN peers) = 2
    /\ \E p, q \in DOMAIN peers :
          /\ SentTo(io, p, "BlockAnnounce") = <<BlockAnnounceMsg(lastOp.header)>>
          /\ SentTo(io, q, "BlockAnnounce") = <<>>
          /\ lastOp.hash \in peers[q].known_blocks

\* The calls of `fn` in a call log, through either collaborator.
Notified(log, fn) == SelectSeq(log, LAMBDA c : c.fn = fn)

\* C19: after on_peer_disconnected(peer) the peer is in neither table;
\* Consensus.peer_disconnected and Sync.peer_disconnected are called for it,
\* once each, exactly when it was in the active table at the start; for a peer
\* that was handshaking only or unknown nothing is called and no other peer's
\* entry changes.
C19_DisconnectRemovesAndNotifies ==
    [][lastOp'.op = "on_peer_disconnected" =>
          LET p == lastOp'.peer
          IN  /\ p \notin DOMAIN peers'
              /\ p \notin DOMAIN handshaking_peers'
              /\ p \in DOMAIN peers
                    => /\ Len(PeerCalls(calls', "consensus", "peer_disconnected", p)) = 1
                       /\ Len(PeerCalls(calls', "sync", "peer_disconnected", p)) = 1
                       /\ Len(Notified(calls', "peer_disconnected")) = 2
              /\ p \notin DOMAIN peers
                    => /\ calls' = <<>>
                       /\ peers' = peers
                       /\ \A q \in PeerIds \ {p} :
                             (q \in DOMAIN handshaking_peers'
                                <=> q \in DOMAIN handshaking_peers)
                             /\ (q \in DOMAIN handshaking_peers
                                   => handshaking_peers'[q] = handshaking_peers[q])
       ]_vars

\* An active peer has just disconnected, both collaborators have heard of it,
\* and the other peer is still active with a request outstanding.
C19_Witness ==
    /\ lastOp.op = "on_peer_disconnected"
    /\ lastOp.peer \notin DOMAIN peers
    /\ Len(PeerCalls(calls, "consensus", "peer_disconnected", lastOp.peer)) = 1
    /\ Len(PeerCalls(calls, "sync", "peer_disconnected", lastOp.peer)) = 1
    /\ \E q \in DOMAIN peers : IsSome(peers[q].block_request)

\* C21: a peer-id enters the active table only if it is in the handshaking
\* table at that moment: a Status from a peer for which on_peer_connected was
\* never called, or whose handshaking entry a tick, on_peer_disconnected or
\* abort has removed, creates no active peer.
C21_PromotedFromHandshaking ==
    [][\A p \in DOMAIN peers' \ DOMAIN peers : p \in DOMAIN handshaking_peers]_vars

\* ------------------------------------------------------------------------
\* Properties of ServerSpec
\* ------------------------------------------------------------------------
\* min(request.max or MAX_U32, 128)
Limit(max) ==
    IF max = None \/ Unwrap(max) > MAX_BLOCK_DATA_RESPONSE
    THEN MAX_BLOCK_DATA_RESPONSE ELSE Unwrap(max)

\* The blocks the chain has for `from`: one or none.
Resolved(from) ==
    {h \in KnownHeaders : IF from.by = "Number"
                          THEN h = MainHeader(from.number)
                          ELSE HeaderHashOf(h) = from.hash}

\* The number of blocks from `start` to the end of the walk: to the best
\* block when ascending, to block 0 when descending.
WalkLen(start, direction) ==
    IF direction = "Ascending" THEN ChainLen - start.number ELSE start.number + 1

\* The chain walk of a request cut at Limit(request.max) entries.
ExpectedBlocks(request) ==
    IF Resolved(request.from) = {} THEN <<>>
    ELSE LET start == CHOOSE h \in Resolved(request.from) : TRUE
             step == IF request.direction = "Ascending" THEN 1 ELSE -1
         IN  [k \in 1..Min(Limit(request.max), WalkLen(start, request.direction)) |->
                 BlockData(IF k = 1 THEN start
                           ELSE MainHeader(start.number + step * (k - 1)),
                           request.fields)]

IsSend(c) == c.op = "send"

\* handle_packet has just handled a BlockRequest for Header, Body,
\* Justification only.
Served(op) ==
    /\ IsPacket(op, "BlockRequest")
    /\ Decode(op.data).fields \subseteq AllFields

\* C17: for an inbound BlockRequest with fields from {Header, Body,
\* Justification}, on_block_request sends exactly one message, to the asking
\* peer: a BlockResponse with the id of the request whose blocks are the chain
\* walk from the resolved start in the requested direction, cut at the first
\* absent header, after block 0 when descending, and at
\* min(request.max or MAX_U32, 128) entries; the same request handled again
\* right after gets an equal response.
C17_BlockRequestServed ==
    [][Served(lastOp') =>
          LET request == Decode(lastOp'.data)
          IN  /\ SelectSeq(io', IsSend)
                    = <<[op |-> "send", peer |-> lastOp'.peer,
                         data |-> Encode(BlockResponseWith(request.id,
                                                           ExpectedBlocks(request)))]>>
              /\ (Served(lastOp) /\ lastOp.data = lastOp'.data)
                    => SelectSeq(io', IsSend)[1].data = SelectSeq(io, IsSend)[1].data
       ]_vars

\* A request from block 0 upwards with no limit of its own has been answered
\* with the first MAX_BLOCK_DATA_RESPONSE blocks of a longer chain.
C17_Witness ==
    /\ Served(lastOp)
    /\ Decode(lastOp.data).max = None
    /\ Decode(lastOp.data).from = ByNumber(0)
    /\ Decode(lastOp.data).direction = "Ascending"
    /\ Len(io) = 1
    /\ io[1].op = "send"
    /\ Len(Decode(io[1].data).blocks) = MAX_BLOCK_DATA_RESPONSE
    /\ Decode(io[1].data).blocks[MAX_BLOCK_DATA_RESPONSE].hash
            = HeaderHashOf(MainHeader(MAX_BLOCK_DATA_RESPONSE - 1))
    /\ ChainLen > MAX_BLOCK_DATA_RESPONSE

\* A BlockRequest that asks for a reserved attribute.
AsksReserved(op) ==
    /\ IsPacket(op, "BlockRequest")
    /\ Decode(op.data).fields \cap {"Receipt", "MessageQueue"} # {}

\* C18: handle_packet returns to its caller whatever the bytes are: bytes
\* that do not decode disable the peer and change no table, and a BlockRequest
\* whose fields contain Receipt or MessageQueue disables the peer instead of
\* unwinding the handler.
C18_HandlePacketAbsorbsErrors ==
    [][lastOp'.op = "handle_packet" =>
          /\ outcome' = "returned"
          /\ ~DecodeOk(lastOp'.data)
                => /\ io' = <<[op |-> "disable_peer", peer |-> lastOp'.peer]>>
                   /\ peers' = peers
                   /\ handshaking_peers' = handshaking_peers
          /\ AsksReserved(lastOp')
                => io' = <<[op |-> "disable_peer", peer |-> lastOp'.peer]>>
       ]_vars

\* ------------------------------------------------------------------------
\* Properties of LockSpec
\* ------------------------------------------------------------------------
HeldLocks(t) == {held[t][i].lock : i \in DOMAIN held[t]}

\* C7: every operation acquires the locks in the order Specialization, Sync,
\* Consensus, PeerTable, HandshakingTable: no thread attempts to acquire a
\* lock while it holds one that is later in that order.
C7_LockOrderRespected ==
    \A t \in Threads :
        (Running(t) /\ NextEvent(t).kind = "acq")
        => \A l \in HeldLocks(t) : Rank(l) < Rank(NextEvent(t).lock)

\* C8: at the moment of a SyncIo call (send, disconnect_peer, disable_peer)
\* the calling thread holds none of the locks of the Protocol.
C8_NoLockHeldAtIo ==
    \A t \in Threads :
        (Running(t) /\ NextEvent(t).kind = "io") => held[t] = <<>>

\* C9: maintain_peers calls SyncIo.disconnect_peer, and the peer table is
\* mutated, only after the read locks of the peer table and of the
\* handshaking table are released.
C9_TickActsAfterRelease ==
    \A t \in Threads :
        (/\ Running(t)
         /\ \/ NextEvent(t).kind = "io" /\ NextEvent(t).fn = "maintain_peers"
            \/ /\ NextEvent(t).kind = "acq" /\ NextEvent(t).mode = "write"
               /\ NextEvent(t).lock \in {"peers", "handshaking"})
        => \A i \in DOMAIN held[t] :
              ~(held[t][i].mode = "read"
                    /\ held[t][i].lock \in {"peers", "handshaking"})

\* Thread t is at an acquisition that the locks held by others do not allow.
Blocked(t) ==
    /\ Running(t)
    /\ NextEvent(t).kind = "acq"
    /\ ~CanAcquire(NextEvent(t).lock, NextEvent(t).mode)

\* The threads whose guards keep t from the lock it is about to take.
Blockers(t) ==
    {u \in Threads :
        \E i \in DOMAIN held[u] :
            /\ held[u][i].lock = NextEvent(t).lock
            /\ ~(held[u][i].mode = "read" /\ NextEvent(t).mode = "read")}

\* Two or more threads each wait for a lock that only threads of the same
\* set can release: none of them takes another step.
Deadlocked(D) ==
    /\ Cardinality(D) >= 2
    /\ \A t \in D : Blocked(t) /\ Blockers(t) \subseteq D

\* C20: no interleaving of concurrently running entry points reaches a state
\* in which two or more threads each wait for a lock held by another of them.
C20_NoDeadlock == \A D \in SUBSET Threads : ~Deadlocked(D)


====
